---- MODULE Spec2Model ----
(***************************************************************************)
(* Model of src/components/data_transformation.py: the feature engineering *)
(* of DataTransformation.feature_engineering over a pandas DataFrame and   *)
(* the orchestration of DataTransformation.initiate_data_transformation.   *)
(*                                                                         *)
(* A DataFrame is a record [n, cols, data, err]: n rows (a RangeIndex      *)
(* 1..n), the column labels in order, and one sequence of n cells per      *)
(* column.  err is set when a statement of feature_engineering raised; the *)
(* frame then holds what the statements before it left behind.             *)
(*                                                                         *)
(* A cell is a record [k, n, d]: k = "nan" a missing value, k = "num" the  *)
(* number n/d (d > 0), k = "str" the string spelled by the digits of n,    *)
(* k = "other" the string "other".                                         *)
(***************************************************************************)
EXTENDS Integers, Sequences, FiniteSets, TLC

\* pc: where initiate_data_transformation is (lines 165-194)
\* train_file, test_file: the tables at train_path and test_path (lines 167, 170)
\* train_df, test_df: the local variables (lines 167-176)
\* X_train, y_train, X_test, y_test: the returned values (lines 180-181)
\* out_train, out_test: the files written (lines 186-187)
\* df: a DataFrame object a caller passes to feature_engineering (line 50)
\* calls: per call of feature_engineering(df), the frame passed and the frame returned
VARIABLES pc, train_file, test_file, train_df, test_df,
          X_train, y_train, X_test, y_test, out_train, out_test,
          df, calls

vars == <<pc, train_file, test_file, train_df, test_df,
          X_train, y_train, X_test, y_test, out_train, out_test, df, calls>>

runVars == <<pc, train_file, test_file, train_df, test_df,
             X_train, y_train, X_test, y_test, out_train, out_test>>

\* ------------------------------------------------------------------ cells

NaN == [k |-> "nan", n |-> 0, d |-> 1]
Num(x) == [k |-> "num", n |-> x, d |-> 1]
Str(x) == [k |-> "str", n |-> x, d |-> 1]
Other == [k |-> "other", n |-> 0, d |-> 1]

IsNa(v) == v.k = "nan"

\* n/d in lowest terms for the denominators that occur (1 and 2)
Rat(n, d) == IF d = 2 /\ n % 2 = 0 THEN Num(n \div 2)
             ELSE [k |-> "num", n |-> n, d |-> d]

\* a + b on float cells: a missing operand gives a missing result
Add(a, b) == IF IsNa(a) \/ IsNa(b) THEN NaN
             ELSE IF a.d = b.d THEN Rat(a.n + b.n, a.d) ELSE Rat(a.n * b.d + b.n * a.d, a.d * b.d)

Sub(a, b) == Add(a, [b EXCEPT !.n = 0 - b.n])

\* 1e-5 is 1/EpsInv
EpsInv == 100000

\* a / (b + 1e-5), exactly: (a.n/a.d) / ((b.n*EpsInv + b.d) / (b.d*EpsInv))
DivEps(a, b) == IF IsNa(a) \/ IsNa(b) THEN NaN
                ELSE [k |-> "num", n |-> a.n * b.d * EpsInv, d |-> a.d * (b.n * EpsInv + b.d)]

\* the comparisons of the code; a comparison with a missing value is False
Gt0(v) == ~IsNa(v) /\ v.n > 0
Gt1(v) == ~IsNa(v) /\ v.n > v.d
Eq0(v) == ~IsNa(v) /\ v.n = 0

\* a < b on numbers
NumLess(a, b) == a.n * b.d < b.n * a.d

fillna(v, w) == IF IsNa(v) THEN w ELSE v

astype_int(b) == IF b THEN Num(1) ELSE Num(0)

\* ------------------------------------------------------------------ frames

Col(name) == [base |-> name, lvl |-> NaN]
Dummy(name, level) == [base |-> name, lvl |-> level]

\* where x is in s, 0 when it is not
IndexOf(s, x) == IF \E i \in DOMAIN s : s[i] = x
                 THEN CHOOSE i \in DOMAIN s : s[i] = x /\ \A j \in 1..(i - 1) : s[j] # x
                 ELSE 0

HasCol(t, name) == IndexOf(t.cols, Col(name)) # 0

\* df[name]
Column(t, name) == t.data[IndexOf(t.cols, Col(name))]

Raise(t) == [t EXCEPT !.err = TRUE]

\* df[name] = values: overwrite in place, or append a new last column
SetColumn(t, name, values) ==
    LET j == IndexOf(t.cols, Col(name))
    IN IF j # 0 THEN [t EXCEPT !.data[j] = values]
       ELSE [t EXCEPT !.cols = Append(t.cols, Col(name)), !.data = Append(t.data, values)]

\* df.drop(columns=[name]): the other columns, in their order; KeyError without it
DropColumn(t, name) ==
    LET j == IndexOf(t.cols, Col(name))
        without(s) == [i \in 1..(Len(s) - 1) |-> IF i < j THEN s[i] ELSE s[i + 1]]
    IN IF j = 0 THEN Raise(t)
       ELSE [t EXCEPT !.cols = without(t.cols), !.data = without(t.data)]

Missing(t, names) == \E c \in names : ~HasCol(t, c)

Rows(t) == 1..t.n

\* ------------------------------------------------------------------ steps of feature_engineering

\* as FixRoomCount, but keeping a room count of zero (roomcnt >= 0)
FixRoomCountKeepingZero(t) ==
    IF t.err THEN t
    ELSE IF Missing(t, {"roomcnt", "bedroomcnt", "bathroomcnt"}) THEN Raise(t)
    ELSE LET room == Column(t, "roomcnt")
             bed == Column(t, "bedroomcnt")
             bath == Column(t, "bathroomcnt")
             fixed == [i \in Rows(t) |->
                          IF ~IsNa(room[i]) /\ room[i].n >= 0 THEN room[i]
                          ELSE Add(Add(bed[i], bath[i]), Num(1))]
         IN DropColumn(SetColumn(t, "roomcnt_fixed", fixed), "roomcnt")

\* lines 69-74: roomcnt_fixed = np.where(roomcnt > 0, roomcnt, bedroomcnt + bathroomcnt + 1),
\* then roomcnt is dropped
FixRoomCount(t) ==
    IF t.err THEN t
    ELSE IF Missing(t, {"roomcnt", "bedroomcnt", "bathroomcnt"}) THEN Raise(t)
    ELSE LET room == Column(t, "roomcnt")
             bed == Column(t, "bedroomcnt")
             bath == Column(t, "bathroomcnt")
             fixed == [i \in Rows(t) |->
                          IF Gt0(room[i]) THEN room[i]
                          ELSE Add(Add(bed[i], bath[i]), Num(1))]
         IN DropColumn(SetColumn(t, "roomcnt_fixed", fixed), "roomcnt")

\* the indices of S in ascending order of their cell in c (ties by index)
SortIdx(S, c) ==
    LET before(j, i) == NumLess(c[j], c[i]) \/ (~NumLess(c[i], c[j]) /\ j < i)
        below == [i \in S |-> Cardinality({j \in S : before(j, i)})]
    IN [r \in 1..Cardinality(S) |-> CHOOSE i \in S : below[i] = r - 1]

Half(v) == Rat(v.n, v.d * 2)

\* Series.median() of the cells of c at the indices G: missing cells are skipped,
\* an all-missing group has a missing median
median(G, c) ==
    LET valid == {i \in G : ~IsNa(c[i])}
        m == Cardinality(valid)
        s == SortIdx(valid, c)
    IN IF m = 0 THEN NaN
       ELSE IF m % 2 = 1 THEN c[s[(m + 1) \div 2]]
       ELSE Half(Add(c[s[m \div 2]], c[s[m \div 2 + 1]]))

\* line 82: garagetotalsqft == 0 with garagecarcnt > 0 becomes missing
MarkGarageSentinel(t) ==
    IF t.err THEN t
    ELSE IF Missing(t, {"garagetotalsqft", "garagecarcnt"}) THEN Raise(t)
    ELSE LET sqft == Column(t, "garagetotalsqft")
             cnt == Column(t, "garagecarcnt")
         IN SetColumn(t, "garagetotalsqft",
                [i \in Rows(t) |-> IF Eq0(sqft[i]) /\ Gt0(cnt[i]) THEN NaN ELSE sqft[i]])

\* the rows of keep, in their order
FilterRows(t, keep) ==
    LET pos(i) == CHOOSE r \in keep : Cardinality({q \in keep : q < r}) = i - 1
    IN [t EXCEPT !.n = Cardinality(keep),
                 !.data = [j \in DOMAIN t.data |->
                              [i \in 1..Cardinality(keep) |-> t.data[j][pos(i)]]]]

\* as ImputeGarage, but the rows of no group are lost with the groupby
ImputeGarageDroppingRows(t) ==
    IF t.err THEN t
    ELSE IF Missing(t, {"garagetotalsqft", "garagecarcnt"}) THEN Raise(t)
    ELSE LET sqft == Column(t, "garagetotalsqft")
             cnt == Column(t, "garagecarcnt")
             group(i) == {j \in Rows(t) : cnt[j] = cnt[i]}
             filled == SetColumn(t, "garagetotalsqft",
                          [i \in Rows(t) |-> fillna(sqft[i], median(group(i), sqft))])
         IN FilterRows(filled, {i \in Rows(t) : ~IsNa(cnt[i])})

\* lines 83-84: groupby("garagecarcnt") leaves out the rows whose key is missing
\* (dropna=True); transform fills each group's missing cells with the group's median;
\* the assignment aligns on the index, so a row of no group gets a missing value
ImputeGarage(t) ==
    IF t.err THEN t
    ELSE IF Missing(t, {"garagetotalsqft", "garagecarcnt"}) THEN Raise(t)
    ELSE LET sqft == Column(t, "garagetotalsqft")
             cnt == Column(t, "garagecarcnt")
             group(i) == {j \in Rows(t) : cnt[j] = cnt[i]}
         IN SetColumn(t, "garagetotalsqft",
                [i \in Rows(t) |-> IF IsNa(cnt[i]) THEN NaN
                                   ELSE fillna(sqft[i], median(group(i), sqft))])

CleanGarage(t) == ImputeGarage(MarkGarageSentinel(t))

\* df[name] = df[num] / (df[den] + 1e-5)
RatioColumn(t, name, num, den) ==
    IF t.err THEN t
    ELSE IF Missing(t, {num, den}) THEN Raise(t)
    ELSE LET a == Column(t, num)
             b == Column(t, den)
         IN SetColumn(t, name, [i \in Rows(t) |-> DivEps(a[i], b[i])])

ReferenceYear == 2025

\* line 91
AgeOfHome(t) ==
    IF t.err THEN t
    ELSE IF Missing(t, {"yearbuilt"}) THEN Raise(t)
    ELSE LET yearbuilt == Column(t, "yearbuilt")
         IN SetColumn(t, "age_of_home",
                [i \in Rows(t) |-> Sub(Num(ReferenceYear), yearbuilt[i])])

\* lines 90-94
EngineeredFeatures(t) ==
    RatioColumn(
      RatioColumn(
        RatioColumn(
          AgeOfHome(
            RatioColumn(t, "price_per_sqft", "taxvaluedollarcnt", "calculatedfinishedsquarefeet")),
          "bath_per_bed", "bathroomcnt", "bedroomcnt"),
        "rooms_per_sqft", "roomcnt_fixed", "calculatedfinishedsquarefeet"),
      "garage_sqft_ratio", "garagetotalsqft", "calculatedfinishedsquarefeet")

\* line 100
MultiUnit(t) ==
    IF t.err THEN t
    ELSE IF Missing(t, {"unitcnt"}) THEN Raise(t)
    ELSE LET unitcnt == Column(t, "unitcnt")
         IN SetColumn(t, "multi_unit", [i \in Rows(t) |-> astype_int(Gt1(unitcnt[i]))])

\* lines 101-102
HasGarage(t) ==
    IF t.err THEN t
    ELSE IF Missing(t, {"garagecarcnt", "garagetotalsqft"}) THEN Raise(t)
    ELSE LET cnt == Column(t, "garagecarcnt")
             sqft == Column(t, "garagetotalsqft")
         IN SetColumn(t, "has_garage",
                [i \in Rows(t) |-> astype_int(Gt0(fillna(cnt[i], Num(0)))
                                              \/ Gt0(fillna(sqft[i], Num(0))))])

BinaryFlags(t) == HasGarage(MultiUnit(t))

\* ------------------------------------------------------------------ encoding

\* the distinct non-missing cells of a column
Distinct(c) == {c[i] : i \in DOMAIN c} \ {NaN}

\* value_counts(): for every distinct non-missing value its count, and where it
\* first occurs
value_counts(c) ==
    [v \in Distinct(c) |->
        LET at == {i \in DOMAIN c : c[i] = v}
        IN [count |-> Cardinality(at), first |-> CHOOSE i \in at : \A j \in at : i <= j]]

\* v comes before w in value_counts(): higher count first, equal counts in the
\* order of first occurrence
Before(vc, v, w) ==
    \/ vc[v].count > vc[w].count
    \/ vc[v].count = vc[w].count /\ vc[v].first < vc[w].first

\* as nlargest, but one value too many (<= k)
nlargestOneMore(vc, k) == {v \in DOMAIN vc : Cardinality({w \in DOMAIN vc : Before(vc, w, v)}) <= k}

\* value_counts().nlargest(k).index
nlargest(vc, k) == {v \in DOMAIN vc : Cardinality({w \in DOMAIN vc : Before(vc, w, v)}) < k}

\* np.where gives one array of one dtype: beside the string "other" the kept
\* values become strings, beside -1 they stay numbers
AsDtypeOf(sentinel, v) == IF sentinel.k = "other" /\ v.k = "num" THEN Str(v.n) ELSE v

\* df[new] = np.where(df[col].isin(top_vals), df[col], sentinel)
TopColumn(t, col, new, k, sentinel) ==
    IF t.err THEN t
    ELSE IF Missing(t, {col}) THEN Raise(t)
    ELSE LET c == Column(t, col)
             top_vals == nlargest(value_counts(c), k)
         IN SetColumn(t, new,
                [i \in Rows(t) |-> IF c[i] \in top_vals THEN AsDtypeOf(sentinel, c[i])
                                   ELSE sentinel])

\* the order of the levels of a categorical: numbers by value, strings
\* lexicographically (digit strings of one length, then "other")
LevelLess(a, b) ==
    IF a.k = "other" THEN FALSE
    ELSE IF b.k = "other" THEN TRUE
    ELSE NumLess(a, b)

\* the levels in ascending order: the r-th is the one with r-1 levels below it
SortLevels(S) ==
    LET below == [a \in S |-> Cardinality({b \in S : LevelLess(b, a)})]
    IN [r \in 1..Cardinality(S) |-> CHOOSE a \in S : below[a] = r - 1]

\* the levels get_dummies(drop_first=True) makes indicator columns for
DummyLevels(c) == IF Distinct(c) = {} THEN <<>> ELSE Tail(SortLevels(Distinct(c)))

\* the indicator columns of one encoded column
DummyCols(name, levels) == [j \in DOMAIN levels |-> Dummy(name, levels[j])]
DummyData(c, levels) == [j \in DOMAIN levels |-> [i \in DOMAIN c |-> astype_int(c[i] = levels[j])]]

\* pd.get_dummies(df, columns=[name], drop_first=True): the other columns in their
\* order, then the indicator columns of name
GetDummies1(t, name) ==
    IF t.err THEN t
    ELSE IF Missing(t, {name}) THEN Raise(t)
    ELSE LET c == Column(t, name)
             levels == DummyLevels(c)
             rest == DropColumn(t, name)
         IN [rest EXCEPT !.cols = rest.cols \o DummyCols(name, levels),
                         !.data = rest.data \o DummyData(c, levels)]

\* pd.get_dummies(df, columns=names, drop_first=True): every name must be a column;
\* the indicator columns follow the remaining columns, in the order of names
RECURSIVE GetDummiesSeq(_, _)
GetDummiesSeq(t, names) ==
    IF names = <<>> THEN t ELSE GetDummiesSeq(GetDummies1(t, Head(names)), Tail(names))

SeqRange(s) == {s[i] : i \in DOMAIN s}

get_dummies(t, names) ==
    IF t.err THEN t
    ELSE IF Missing(t, SeqRange(names)) THEN Raise(t)
    ELSE GetDummiesSeq(t, names)

K_region == 50
K_landuse == 15
K_landusetype == 5

\* line 111 for one of the three region columns
RegionTop(t, col) == TopColumn(t, col, col \o "_top", K_region, Num(0 - 1))

\* lines 108-112, one iteration
EncodeRegion(t, col) == get_dummies(RegionTop(t, col), <<col \o "_top">>)

\* lines 118-121
EncodeLanduse(t) ==
    get_dummies(TopColumn(t, "propertycountylandusecode", "propertycountylanduse_top",
                          K_landuse, Other),
                <<"propertycountylanduse_top">>)

\* lines 127-130
EncodeLanduseType(t) ==
    get_dummies(TopColumn(t, "propertylandusetypeid", "propertylandusetype_top",
                          K_landusetype, Other),
                <<"propertylandusetype_top">>)

low_card == <<"airconditioningtypeid", "heatingorsystemtypeid", "fips", "regionidcounty">>

\* line 137
EncodeLowCard(t) == get_dummies(t, low_card)

\* lines 143-145
DropZoning(t) ==
    IF t.err THEN t
    ELSE IF HasCol(t, "propertyzoningdesc") THEN DropColumn(t, "propertyzoningdesc")
    ELSE t

\* ------------------------------------------------------------------ feature_engineering

\* lines 69-111 (first iteration of the loop): every statement up to the first
\* rebinding of df works on the caller's DataFrame object
InPlace(t) ==
    RegionTop(BinaryFlags(EngineeredFeatures(CleanGarage(FixRoomCount(t)))), "regionidcity")

\* lines 112-145: from the first get_dummies on, df is a new object
Rebound(t) ==
    DropZoning(
      EncodeLowCard(
        EncodeLanduseType(
          EncodeLanduse(
            EncodeRegion(
              EncodeRegion(
                get_dummies(t, <<"regionidcity_top">>),
                "regionidzip"),
              "regionidneighborhood")))))

\* the value feature_engineering(df) returns; err: it raised CustomException
feature_engineering(t) == Rebound(InPlace([t EXCEPT !.err = FALSE]))

\* the caller's DataFrame object after feature_engineering(df) returned or raised
ArgAfter(t) == [InPlace([t EXCEPT !.err = FALSE]) EXCEPT !.err = FALSE]

\* ------------------------------------------------------------------ input tables

\* the columns of the raw tables, in file order
InputCols == <<"roomcnt", "bedroomcnt", "bathroomcnt", "garagecarcnt", "garagetotalsqft",
               "taxvaluedollarcnt", "calculatedfinishedsquarefeet", "yearbuilt", "unitcnt",
               "regionidcity", "regionidzip", "regionidneighborhood",
               "propertycountylandusecode", "propertylandusetypeid",
               "airconditioningtypeid", "heatingorsystemtypeid", "fips", "regionidcounty",
               "propertyzoningdesc">>

target_col == "taxvaluedollarcnt"

BaseRow == [roomcnt |-> Num(5), bedroomcnt |-> Num(2), bathroomcnt |-> Num(1),
            garagecarcnt |-> Num(2), garagetotalsqft |-> Num(400),
            taxvaluedollarcnt |-> Num(10), calculatedfinishedsquarefeet |-> Num(1500),
            yearbuilt |-> Num(1990), unitcnt |-> Num(1),
            regionidcity |-> Num(1001), regionidzip |-> Num(8999),
            regionidneighborhood |-> Num(501), propertycountylandusecode |-> Str(101),
            propertylandusetypeid |-> Num(299), airconditioningtypeid |-> Num(1),
            heatingorsystemtypeid |-> Num(2), fips |-> Num(6037), regionidcounty |-> Num(3101),
            propertyzoningdesc |-> Str(7)]

\* the frame read from a file with the given rows; row i carries assessed value 10*i
MkFrame(rows) ==
    [n |-> Len(rows), cols |-> [j \in DOMAIN InputCols |-> Col(InputCols[j])],
     data |-> [j \in DOMAIN InputCols |->
                 [i \in DOMAIN rows |-> IF InputCols[j] = target_col THEN Num(10 * i)
                                        ELSE rows[i][InputCols[j]]]],
     err |-> FALSE]

MaxRows == 3
MaxRoomRows == 2
MaxDistinct == 52
MaxRepeat == 1
MaxNaRows == 1
MaxRunDistinct == 3

SeqsUpTo(S, m) == UNION {[1..l -> S] : l \in 1..m}

\* garagecarcnt missing, 0 or 2 with an area missing, 0 or 400, and two cars with 600
GarageRows == {[BaseRow EXCEPT !.garagecarcnt = c, !.garagetotalsqft = a] :
                 c \in {NaN, Num(0), Num(2)}, a \in {NaN, Num(0), Num(400)}}
              \cup {[BaseRow EXCEPT !.garagecarcnt = Num(2), !.garagetotalsqft = Num(600)]}

RoomRows == {[BaseRow EXCEPT !.roomcnt = r, !.bedroomcnt = b] :
               r \in {NaN, Num(0 - 1), Num(0), Num(5)}, b \in {NaN, Num(2)}}

\* the row whose categorical cells are the v-th category of every categorical column
CatRow(v) == [BaseRow EXCEPT !.regionidcity = Num(1000 + v), !.regionidzip = Num(9000 - v),
                             !.regionidneighborhood = Num(500 + v),
                             !.propertycountylandusecode = Str(100 + v),
                             !.propertylandusetypeid = Num(300 - v),
                             !.airconditioningtypeid = Num(1 + (v % 3)),
                             !.heatingorsystemtypeid = Num(2 + (v % 2)),
                             !.fips = Num(6037 + 22 * (v % 2)),
                             !.regionidcounty = Num(3101 - (v % 3)),
                             !.unitcnt = Num(v % 3)]

NaCatRow == [BaseRow EXCEPT !.regionidcity = NaN, !.regionidzip = NaN,
                            !.regionidneighborhood = NaN,
                            !.propertycountylandusecode = NaN,
                            !.propertylandusetypeid = NaN,
                            !.airconditioningtypeid = NaN, !.heatingorsystemtypeid = NaN,
                            !.fips = NaN, !.regionidcounty = NaN, !.unitcnt = NaN]

\* dist categories once each, then rep more rows of the last category and of the one
\* before it, then nans rows without categories
CatRowsOf(dist, rep, nans) ==
    [i \in 1..dist |-> CatRow(i)]
    \o [i \in 1..(rep * (IF dist > 1 THEN 2 ELSE 1)) |-> CatRow(dist - ((i - 1) % 2))]
    \o [i \in 1..nans |-> NaCatRow]

\* the numbers of categories tried: one, two, and those around each K
DistinctCounts(maxDist) ==
    {dist \in 1..maxDist :
        \/ dist <= 2
        \/ \E k \in {K_region, K_landuse, K_landusetype} : dist \in (k - 1)..(k + 2)
        \/ dist = maxDist}

CatFrames(maxDist) == {MkFrame(CatRowsOf(dist, rep, nans)) :
                          dist \in DistinctCounts(maxDist), rep \in 0..MaxRepeat,
                          nans \in 0..MaxNaRows}

GarageFrames == {MkFrame(rows) : rows \in SeqsUpTo(GarageRows, MaxRows)}
RoomFrames == {MkFrame(rows) : rows \in SeqsUpTo(RoomRows, MaxRoomRows)}

\* a file lacking one column (propertyzoningdesc may be absent without error)
LackingFrames == {DropColumn(MkFrame(<<BaseRow, CatRow(2)>>), InputCols[j]) : j \in DOMAIN InputCols}

\* a file read_csv cannot read
Unreadable == [n |-> 0, cols |-> <<>>, data |-> <<>>, err |-> TRUE]

\* no object bound yet
None == [n |-> 0 - 1, cols |-> <<>>, data |-> <<>>, err |-> FALSE]

\* a file with the header line only
EmptyFrame == MkFrame(<<>>)

FETables == {EmptyFrame} \cup GarageFrames \cup RoomFrames \cup CatFrames(MaxDistinct)
            \cup LackingFrames

RunGarageRows == {[BaseRow EXCEPT !.garagecarcnt = c] : c \in {NaN, Num(2)}}

\* files lacking a column used first, last, as the target, or only optionally
RunLackingFrames == {DropColumn(MkFrame(<<BaseRow, CatRow(2)>>), name) :
                       name \in {"roomcnt", "regionidcounty", target_col, "propertyzoningdesc"}}

RunFiles == {Unreadable, EmptyFrame} \cup RunLackingFrames \cup CatFrames(MaxRunDistinct)
            \cup {MkFrame(rows) : rows \in [1..2 -> RunGarageRows]}

\* ------------------------------------------------------------------ initiate_data_transformation

\* df.drop(columns=[target_col])
DropTarget(t) == IF HasCol(t, target_col) THEN DropColumn(t, target_col) ELSE Raise(t)

\* df[target_col], a Series: its name and its cells
TargetSeries(t) == [n |-> t.n, cols |-> <<Col(target_col)>>,
                    data |-> <<Column(t, target_col)>>, err |-> FALSE]

\* as concat, but the target first (pd.concat([y, X], axis=1))
concatTargetFirst(X, y) == [X EXCEPT !.cols = y.cols \o X.cols, !.data = y.data \o X.data]

\* pd.concat([X, y], axis=1) of two objects with the same index
concat(X, y) == [X EXCEPT !.cols = X.cols \o y.cols, !.data = X.data \o y.data]

Init ==
    /\ pc = "start"
    /\ train_file \in RunFiles
    /\ test_file \in RunFiles
    /\ train_df = None /\ test_df = None
    /\ X_train = None /\ y_train = None /\ X_test = None /\ y_test = None
    /\ out_train = None /\ out_test = None
    /\ df = None /\ calls = <<>>

\* line 167
ReadTrain ==
    /\ pc = "start"
    /\ IF train_file.err THEN pc' = "raised" /\ UNCHANGED train_df
       ELSE pc' = "train_read" /\ train_df' = train_file
    /\ UNCHANGED <<train_file, test_file, test_df, X_train, y_train, X_test, y_test,
                   out_train, out_test, df, calls>>

\* line 170
ReadTest ==
    /\ pc = "train_read"
    /\ IF test_file.err THEN pc' = "raised" /\ UNCHANGED test_df
       ELSE pc' = "test_read" /\ test_df' = test_file
    /\ UNCHANGED <<train_file, test_file, train_df, X_train, y_train, X_test, y_test,
                   out_train, out_test, df, calls>>

\* as TransformTrain, but the train table is written as soon as it is transformed
TransformTrainThenSave ==
    /\ pc = "test_read"
    /\ LET ret == feature_engineering(train_df)
       IN IF ret.err THEN pc' = "raised" /\ train_df' = ArgAfter(train_df) /\ UNCHANGED out_train
          ELSE pc' = "train_done" /\ train_df' = ret /\ out_train' = ret
    /\ UNCHANGED <<train_file, test_file, test_df, X_train, y_train, X_test, y_test,
                   out_test, df, calls>>

\* line 173: on an exception train_df keeps the object feature_engineering worked on
TransformTrain ==
    /\ pc = "test_read"
    /\ LET ret == feature_engineering(train_df)
       IN IF ret.err THEN pc' = "raised" /\ train_df' = ArgAfter(train_df)
          ELSE pc' = "train_done" /\ train_df' = ret
    /\ UNCHANGED <<train_file, test_file, test_df, X_train, y_train, X_test, y_test,
                   out_train, out_test, df, calls>>

\* line 176
TransformTest ==
    /\ pc = "train_done"
    /\ LET ret == feature_engineering(test_df)
       IN IF ret.err THEN pc' = "raised" /\ test_df' = ArgAfter(test_df)
          ELSE pc' = "test_done" /\ test_df' = ret
    /\ UNCHANGED <<train_file, test_file, train_df, X_train, y_train, X_test, y_test,
                   out_train, out_test, df, calls>>

\* X.reindex(columns=like.cols, fill_value=0)
reindex(X, like) ==
    [X EXCEPT !.cols = like.cols,
              !.data = [j \in DOMAIN like.cols |->
                           LET at == IndexOf(X.cols, like.cols[j])
                           IN IF at # 0 THEN X.data[at] ELSE [i \in Rows(X) |-> Num(0)]]]

\* as Split, but X_test is given the columns of X_train
SplitAligned ==
    /\ pc = "test_done"
    /\ IF DropTarget(train_df).err \/ DropTarget(test_df).err
       THEN pc' = "raised" /\ UNCHANGED <<X_train, y_train, X_test, y_test>>
       ELSE /\ pc' = "split"
            /\ X_train' = DropTarget(train_df) /\ y_train' = TargetSeries(train_df)
            /\ X_test' = reindex(DropTarget(test_df), DropTarget(train_df))
            /\ y_test' = TargetSeries(test_df)
    /\ UNCHANGED <<train_file, test_file, train_df, test_df, out_train, out_test, df, calls>>

\* lines 179-181
Split ==
    /\ pc = "test_done"
    /\ IF DropTarget(train_df).err \/ DropTarget(test_df).err
       THEN pc' = "raised" /\ UNCHANGED <<X_train, y_train, X_test, y_test>>
       ELSE /\ pc' = "split"
            /\ X_train' = DropTarget(train_df) /\ y_train' = TargetSeries(train_df)
            /\ X_test' = DropTarget(test_df) /\ y_test' = TargetSeries(test_df)
    /\ UNCHANGED <<train_file, test_file, train_df, test_df, out_train, out_test, df, calls>>

\* lines 185-186: the train table is written
SaveTrain ==
    /\ pc = "split"
    /\ pc' = "train_saved"
    /\ out_train' = concat(X_train, y_train)
    /\ UNCHANGED <<train_file, test_file, train_df, test_df, X_train, y_train, X_test,
                   y_test, out_test, df, calls>>

\* lines 185-186: makedirs or to_csv raises (output location unwritable)
SaveTrainFails ==
    /\ pc = "split"
    /\ pc' = "raised"
    /\ UNCHANGED <<train_file, test_file, train_df, test_df, X_train, y_train, X_test,
                   y_test, out_train, out_test, df, calls>>

\* line 187: the test table is written
SaveTest ==
    /\ pc = "train_saved"
    /\ pc' = "saved"
    /\ out_test' = concat(X_test, y_test)
    /\ UNCHANGED <<train_file, test_file, train_df, test_df, X_train, y_train, X_test,
                   y_test, out_train, df, calls>>

\* line 187: to_csv raises
SaveTestFails ==
    /\ pc = "train_saved"
    /\ pc' = "raised"
    /\ UNCHANGED <<train_file, test_file, train_df, test_df, X_train, y_train, X_test,
                   y_test, out_train, out_test, df, calls>>

\* line 190
Return ==
    /\ pc = "saved"
    /\ pc' = "done"
    /\ UNCHANGED <<train_file, test_file, train_df, test_df, X_train, y_train, X_test,
                   y_test, out_train, out_test, df, calls>>

Next == \/ ReadTrain \/ ReadTest \/ TransformTrain \/ TransformTest \/ Split
        \/ SaveTrain \/ SaveTrainFails \/ SaveTest \/ SaveTestFails \/ Return

Spec == Init /\ [][Next]_vars

\* ------------------------------------------------------------------ feature_engineering, called on one DataFrame object

MaxCalls == 2

InitFE ==
    /\ pc = "start"
    /\ train_file = Unreadable /\ test_file = Unreadable
    /\ train_df = None /\ test_df = None
    /\ X_train = None /\ y_train = None /\ X_test = None /\ y_test = None
    /\ out_train = None /\ out_test = None
    /\ df \in FETables
    /\ calls = <<>>

\* feature_engineering(df): calls holds, per call, the frame passed and the frame
\* returned (err: the call raised); df is the caller's object afterwards
Call ==
    /\ Len(calls) < MaxCalls
    /\ calls' = Append(calls, [arg |-> df, ret |-> feature_engineering(df)])
    /\ df' = ArgAfter(df)
    /\ UNCHANGED runVars

NextFE == Call

SpecFE == InitFE /\ [][NextFE]_vars

\* ------------------------------------------------------------------ properties of feature_engineering

\* the call-th call returned a frame
Returned(call) == ~calls[call].ret.err

\* the input columns feature_engineering neither rewrites nor removes
PassThrough == {"bedroomcnt", "bathroomcnt", "garagecarcnt", "taxvaluedollarcnt",
                "calculatedfinishedsquarefeet", "yearbuilt", "unitcnt", "regionidcity",
                "regionidzip", "regionidneighborhood", "propertycountylandusecode",
                "propertylandusetypeid"}

\* C1: a frame returned by feature_engineering has exactly the rows of its input, in
\* the input's order: the same row count, every column of that length, and every
\* untouched input column (the assessed value, distinct per row, among them) cell for
\* cell as in the input.
C1_RowsPreserved ==
    \A call \in DOMAIN calls : Returned(call) =>
        LET in == calls[call].arg
            out == calls[call].ret
        IN /\ out.n = in.n
           /\ Len(out.data) = Len(out.cols)
           /\ \A j \in DOMAIN out.data : DOMAIN out.data[j] = 1..in.n
           /\ \A name \in PassThrough : HasCol(out, name) /\ Column(out, name) = Column(in, name)

\* C1 witness: a call returned for a table of several rows, one of them without
\* garagecarcnt and one without categories
C1_Witness ==
    \E call \in DOMAIN calls :
        /\ Returned(call)
        /\ calls[call].arg.n >= 2
        /\ \E i \in Rows(calls[call].arg) : IsNa(Column(calls[call].arg, "garagecarcnt")[i])

Categorical == {"regionidcity", "regionidzip", "regionidneighborhood",
                "propertycountylandusecode", "propertylandusetypeid",
                "airconditioningtypeid", "heatingorsystemtypeid", "fips", "regionidcounty"}

\* the base name of the indicator columns of a categorical input column
EncodedAs(name) ==
    IF name \in {"regionidcity", "regionidzip", "regionidneighborhood"} THEN name \o "_top"
    ELSE IF name = "propertycountylandusecode" THEN "propertycountylanduse_top"
    ELSE IF name = "propertylandusetypeid" THEN "propertylandusetype_top"
    ELSE name

IsString(v) == v.k \in {"str", "other"}

\* C2 (as stated): in a returned frame no categorical input column is present, each
\* is represented by at least one indicator column, and no cell is a string.
C2_CategoricalsReplaced ==
    \A call \in DOMAIN calls : Returned(call) =>
        LET out == calls[call].ret
        IN /\ \A name \in Categorical :
                /\ ~HasCol(out, name)
                /\ \E j \in DOMAIN out.cols :
                      out.cols[j].base = EncodedAs(name) /\ out.cols[j] # Col(EncodedAs(name))
           /\ \A j \in DOMAIN out.data : \A i \in DOMAIN out.data[j] : ~IsString(out.data[j][i])

\* C5 (as stated): when feature_engineering returned a frame for a table object, a
\* second call on the same object returns the same frame.
C5_SecondCallSame ==
    (Len(calls) >= 2 /\ Returned(1)) => calls[2].ret = calls[1].ret

\* the garage area of row i of the input the way the garage cleanup is specified: a
\* valid area unchanged; a missing or sentinel area (0 with garagecarcnt > 0) the median
\* of the valid areas of the rows with the same garagecarcnt, missing without any
SpecifiedGarageArea(in, i) ==
    LET sqft == Column(in, "garagetotalsqft")
        cnt == Column(in, "garagecarcnt")
        invalid(j) == IsNa(sqft[j]) \/ (Eq0(sqft[j]) /\ Gt0(cnt[j]))
        peers == {j \in Rows(in) : cnt[j] = cnt[i] /\ ~invalid(j)}
    IN IF invalid(i) THEN median(peers, sqft) ELSE sqft[i]

\* C6 (as stated): in a returned frame every row's garagetotalsqft is the specified
\* garage area of that row, rows without garagecarcnt included.
C6_GarageCleanup ==
    \A call \in DOMAIN calls : Returned(call) =>
        \A i \in Rows(calls[call].arg) :
            Column(calls[call].ret, "garagetotalsqft")[i] = SpecifiedGarageArea(calls[call].arg, i)

\* C8: in a returned frame roomcnt_fixed is roomcnt where roomcnt > 0 and otherwise
\* (zero, negative, missing) bedroomcnt + bathroomcnt + 1, missing when a summand is;
\* the roomcnt column is gone.
C8_RoomCountRepair ==
    \A call \in DOMAIN calls : Returned(call) =>
        LET in == calls[call].arg
            out == calls[call].ret
        IN /\ ~HasCol(out, "roomcnt")
           /\ HasCol(out, "roomcnt_fixed")
           /\ \A i \in Rows(in) :
                LET room == Column(in, "roomcnt")[i]
                    bed == Column(in, "bedroomcnt")[i]
                    bath == Column(in, "bathroomcnt")[i]
                    fixed == Column(out, "roomcnt_fixed")[i]
                IN IF room.k = "num" /\ room.n >= 1 THEN fixed = room
                   ELSE IF bed.k = "nan" \/ bath.k = "nan" THEN fixed.k = "nan"
                   ELSE fixed.k = "num" /\ fixed.d = 1 /\ fixed.n = bed.n + bath.n + 1

\* C8 witness: roomcnt=0, bedroomcnt=2, bathroomcnt=1 gave 4, and roomcnt=5 gave 5
C8_Witness ==
    \E call \in DOMAIN calls :
        /\ Returned(call)
        /\ \E i, j \in Rows(calls[call].arg) :
              /\ Column(calls[call].arg, "roomcnt")[i] = Num(0)
              /\ Column(calls[call].arg, "bedroomcnt")[i] = Num(2)
              /\ Column(calls[call].arg, "bathroomcnt")[i] = Num(1)
              /\ Column(calls[call].ret, "roomcnt_fixed")[i] = Num(4)
              /\ Column(calls[call].arg, "roomcnt")[j] = Num(5)
              /\ Column(calls[call].ret, "roomcnt_fixed")[j] = Num(5)

\* C9 (as stated): in a returned frame has_garage is 1 for the rows with garagecarcnt > 0
\* or a garage area > 0 (each taken as 0 when missing) and 0 for the others, the garage
\* area being the row's area after the cleanup as specified.
C9_HasGarage ==
    \A call \in DOMAIN calls : Returned(call) =>
        \A i \in Rows(calls[call].arg) :
            LET cnt == Column(calls[call].arg, "garagecarcnt")[i]
                area == SpecifiedGarageArea(calls[call].arg, i)
                flag == Column(calls[call].ret, "has_garage")[i]
            IN /\ flag \in {Num(0), Num(1)}
               /\ flag = Num(1) <=> ((cnt.k = "num" /\ cnt.n > 0) \/ (area.k = "num" /\ area.n > 0))

\* the top-K encodings of feature_engineering: the column, the base name of its
\* indicator columns, K and the sentinel
TopKEncodings ==
    {[col |-> "regionidcity", new |-> "regionidcity_top", k |-> K_region, sentinel |-> Num(0 - 1)],
     [col |-> "regionidzip", new |-> "regionidzip_top", k |-> K_region, sentinel |-> Num(0 - 1)],
     [col |-> "regionidneighborhood", new |-> "regionidneighborhood_top", k |-> K_region,
      sentinel |-> Num(0 - 1)],
     [col |-> "propertycountylandusecode", new |-> "propertycountylanduse_top", k |-> K_landuse,
      sentinel |-> Other],
     [col |-> "propertylandusetypeid", new |-> "propertylandusetype_top", k |-> K_landusetype,
      sentinel |-> Other]}

\* the level a kept value v appears as
Label(e, v) == IF e.sentinel.k = "other" THEN Str(v.n) ELSE v

Min(a, b) == IF a < b THEN a ELSE b

\* the indicator columns of encoding e in out are those of the column c reduced to the
\* values T and the sentinel: one per level but one (none for no level, unless
\* asStated), each 1 exactly on the rows of its level
EncodesTop(out, e, c, T, asStated) ==
    LET idx == {j \in DOMAIN out.cols : out.cols[j].base = e.new}
        made == {out.cols[j].lvl : j \in idx}
        levels == {Label(e, v) : v \in T}
                  \cup (IF \E i \in DOMAIN c : c[i] \notin T THEN {e.sentinel} ELSE {})
        reduced(x) == IF x \in T THEN Label(e, x) ELSE e.sentinel
    IN /\ made \subseteq levels
       /\ Cardinality(made) = Cardinality(idx)
       /\ Cardinality(idx) = (IF levels = {} /\ ~asStated THEN 0 ELSE Cardinality(levels) - 1)
       /\ Cardinality(idx) <= e.k
       /\ \A j \in idx : \A i \in DOMAIN c :
             out.data[j][i] = (IF reduced(c[i]) = out.cols[j].lvl THEN Num(1) ELSE Num(0))

\* every top-K encoded column of every returned frame has a set T of min(K, number of
\* distinct values) values of the input column, none less frequent than a value
\* outside T, whose reduction the indicator columns encode
TopKEncoded(asStated) ==
    \A call \in DOMAIN calls : Returned(call) =>
        \A e \in TopKEncodings :
            LET c == Column(calls[call].arg, e.col)
                out == calls[call].ret
                count == [v \in Distinct(c) |-> Cardinality({i \in DOMAIN c : c[i] = v})]
                made == {out.cols[j].lvl : j \in {m \in DOMAIN out.cols : out.cols[m].base = e.new}}
                own == {v \in Distinct(c) : Label(e, v) \in made}
            IN \E T \in {own} \cup {own \cup {r} : r \in Distinct(c) \ own} :
                  /\ Cardinality(T) = Min(e.k, Cardinality(Distinct(c)))
                  /\ \A v \in T : \A w \in Distinct(c) \ T : count[v] >= count[w]
                  /\ EncodesTop(out, e, c, T, asStated)

\* C7 (as stated): for every top-K encoded column of a returned frame, the values
\* outside the K most frequent and the missing values are the sentinel level and have no
\* indicator column of their own, the K most frequent have one each but for the one
\* dropped level, and the number of indicator columns is the number of levels (kept
\* values, and the sentinel if a row maps to it) minus one, at most K.
C7_TopKEncodingAsStated == TopKEncoded(TRUE)

\* C7 (amended): the same, with the number of indicator columns being the number of
\* levels minus one for a table with rows, and zero for a table without rows, which has
\* no level.
C7_TopKEncoding == TopKEncoded(FALSE)

\* C7 witness: a returned frame for a table with more than K distinct values in every
\* top-K column, a most frequent value that is not among the first K, and rows without
\* categories
C7_Witness ==
    \E call \in DOMAIN calls :
        /\ Returned(call)
        /\ \A e \in TopKEncodings :
              LET c == Column(calls[call].arg, e.col)
              IN /\ Cardinality(Distinct(c)) > e.k
                 /\ \E i \in DOMAIN c : IsNa(c[i])
                 /\ \E i, j \in DOMAIN c : i > e.k /\ j > i /\ c[i] = c[j]

\* ------------------------------------------------------------------ properties of initiate_data_transformation

LoadsAndTransformsOk ==
    /\ ~train_file.err /\ ~test_file.err
    /\ ~feature_engineering(train_file).err /\ ~feature_engineering(test_file).err

Rank == [start |-> 0, train_read |-> 1, test_read |-> 2, train_done |-> 3, test_done |-> 4,
         split |-> 5, train_saved |-> 6, saved |-> 7, done |-> 8, raised |-> 9]

\* no output is written unless both files loaded and both tables transformed; a run in
\* which a load or a transform fails never gets to the split
NoOutputOnFailure ==
    /\ ~LoadsAndTransformsOk =>
          /\ out_train = None /\ out_test = None
          /\ Rank[pc] < Rank["split"] \/ pc = "raised"
    /\ (out_train # None \/ out_test # None) =>
          /\ train_df = feature_engineering(train_file)
          /\ test_df = feature_engineering(test_file)
          /\ Rank[pc] >= Rank["train_saved"]

\* C3: no output file is written unless both loads and both transforms succeeded, a
\* failing load or transform ends the run as raised, and every step moves the run
\* forward: none is taken again and a raised run takes no further step.
C3_NoPartialOutput ==
    [](NoOutputOnFailure) /\ [][Rank[pc'] > Rank[pc] /\ pc # "raised"]_vars

\* C3 witness: the test transform failed after the train table was transformed, and
\* nothing was written
C3_Witness ==
    /\ pc = "raised"
    /\ ~train_file.err /\ ~test_file.err
    /\ ~feature_engineering(train_file).err /\ feature_engineering(test_file).err
    /\ train_df = feature_engineering(train_file)
    /\ out_train = None /\ out_test = None

\* X and y are the features and the target of the rows of file, row for row
SplitsOf(X, y, file) ==
    /\ ~HasCol(X, target_col)
    /\ y.n = X.n /\ X.n = file.n
    /\ \A j \in DOMAIN X.data : DOMAIN X.data[j] = 1..X.n
    /\ y.data = <<Column(file, target_col)>>
    /\ \A name \in PassThrough \ {target_col} : Column(X, name) = Column(file, name)
    /\ \A i \in 1..X.n :
          Column(X, "price_per_sqft")[i]
             = DivEps(y.data[1][i], Column(file, "calculatedfinishedsquarefeet")[i])

\* out is X followed by the target as its last column
PersistedOf(out, X, y) ==
    /\ Len(out.cols) = Len(X.cols) + 1
    /\ \A j \in DOMAIN X.cols : out.cols[j] = X.cols[j] /\ out.data[j] = X.data[j]
    /\ out.cols[Len(out.cols)] = Col(target_col)
    /\ out.data[Len(out.cols)] = y.data[1]
    /\ \A j \in DOMAIN X.cols : out.cols[j] # Col(target_col)

\* C4: once the run has split the tables, X_train and X_test lack the target column,
\* y_train and y_test have their length and hold, row for row, the assessed values of the
\* input rows the X rows come from; a written table is X followed by the target as the
\* last column.
C4_TargetSplit ==
    /\ X_train # None =>
          /\ SplitsOf(X_train, y_train, train_file)
          /\ SplitsOf(X_test, y_test, test_file)
    /\ out_train # None => PersistedOf(out_train, X_train, y_train)
    /\ out_test # None => PersistedOf(out_test, X_test, y_test)
    /\ pc = "done" => X_train # None /\ out_train # None /\ out_test # None

\* C4 witness: a run returned tables of several rows
C4_Witness ==
    pc = "done" /\ X_train.n >= 2 /\ X_test.n >= 2 /\ out_test.n >= 2

ColSet(t) == {t.cols[j] : j \in DOMAIN t.cols}

\* the levels of a directly one-hot encoded column of a file that get an indicator
\* column: every value present in this file but the smallest
OwnLevels(file, name) ==
    LET present == {Column(file, name)[i] : i \in Rows(file)} \ {NaN}
    IN {v \in present : \E w \in present : w.n < v.n}

IndicatorLevels(X, name) == {X.cols[j].lvl : j \in {m \in DOMAIN X.cols : X.cols[m].base = name /\ X.cols[m] # Col(name)}}

\* C10: the indicator columns of X_train are decided by the train file alone and those
\* of X_test by the test file alone; when the two files differ in the levels of a
\* one-hot encoded column, X_train and X_test differ in their columns; and the run does
\* not raise for it: with both loads and transforms successful it reaches the split.
C10_SchemaDrift ==
    /\ X_train # None =>
          /\ \A name \in SeqRange(low_card) :
                /\ IndicatorLevels(X_train, name) = OwnLevels(train_file, name)
                /\ IndicatorLevels(X_test, name) = OwnLevels(test_file, name)
          /\ (\E name \in SeqRange(low_card) :
                 OwnLevels(train_file, name) # OwnLevels(test_file, name))
             => ColSet(X_train) # ColSet(X_test)
    /\ (LoadsAndTransformsOk /\ pc = "raised") => X_train # None

\* C10 witness: a run returned with X_train and X_test of different columns
C10_Witness ==
    pc = "done" /\ ColSet(X_train) # ColSet(X_test)

====
